---------------------------- MODULE Spec2Model ----------------------------
(***************************************************************************)
(* Model of the Aegis Kubernetes framework's policy test helpers           *)
(* (tests/README.md) and of its compliance validation script               *)
(* (scripts/validate-compliance.sh).                                       *)
(*                                                                         *)
(*   Spec         one run of validate-compliance.sh's main                 *)
(*   SpecSummary  generate_summary applied to arbitrary reports            *)
(*   SpecKyverno  the Kyverno test helpers applied to arbitrary arguments  *)
(*   SpecCli      the provision and destroy commands of scripts/go/main.go *)
(*   SpecRunner   TestMain of tests/main_test.go: run, report, exit        *)
(*   SpecSelect   ShouldRunTest applied to arbitrary suites and flags      *)
(*   SpecCert     check_all_certificates of the renewal script             *)
(*   SpecValidate the stages of the cluster validation script              *)
(***************************************************************************)
EXTENDS Integers, Sequences, FiniteSets, TLC

VARIABLES
    pc,         \* position of the script in main (or its exit)
    report,     \* contents of $OUTPUT_FILE
    last,       \* the step of main that ran last and how its probe command ended
    call,       \* the helper call under evaluation: function name and arguments
    ret,        \* what the call returned
    env,        \* what the run finds around it: variables, flags, cluster, files
    trace,      \* what the process has done so far: commands started, lines logged
    exit,       \* exit status of the process, Running until it has ended
    tr,         \* the TestRunner
    renewed_count,  \* check_all_certificates: local renewed_count
    todo        \* the items a for loop has still to visit

vars == <<pc, report, last, call, ret, env, trace, exit, tr, renewed_count, todo>>
scanVars == <<pc, report, last>>
callVars == <<call, ret>>
toolVars == <<env, trace, exit, tr, renewed_count, todo>>

Running == [ended |-> FALSE]

\* os.Exit(code), exit code, or the status set -e ends a script with
ExitStatus(code) == [ended |-> TRUE, code |-> code]

\* the state of the command-line tools while none of them runs
ToolsIdle ==
    /\ env = <<>>
    /\ trace = <<>>
    /\ exit = Running
    /\ tr = [fn |-> "none"]
    /\ renewed_count = 0
    /\ todo = <<>>

(***************************************************************************)
(* Bounds                                                                  *)
(***************************************************************************)
\* largest count a probe pipeline reports (wc -l, grep -c)
MaxCount == 2
\* number of distinct values of $(date -Iseconds)
MaxTime == 2
\* longest report handed to generate_summary in SpecSummary
MaxChecks == 4
\* longest policy list handed to EvaluatePolicyPrecedence
MaxPolicies == 2
\* most rules a policy document handed to ValidateKyvernoPolicy declares
MaxYamlRules == 2
\* most certificates kubectl lists in the namespace
MaxCerts == 2

(***************************************************************************)
(* validate-compliance.sh: the report file                                 *)
(***************************************************************************)
NoSummary == [present |-> FALSE]

NoFile == [exists |-> FALSE]

Statuses == {"PASS", "FAIL", "WARN", "INFO"}

\* outcome of writing the report: the jq filter (or its redirection) fails,
\* the mv that installs the new file fails, or both succeed
WriteOutcomes == {"ok", "jq", "mv"}

\* init_report: cat > "$OUTPUT_FILE"
init_report(ts) ==
    [exists |-> TRUE, timestamp |-> ts, compliance_checks |-> <<>>,
     summary |-> NoSummary]

\* a filter that puts the new result in front of the earlier ones
AppendEntry_InFront(rep, check_name, status) ==
    [rep EXCEPT !.compliance_checks =
        <<[name |-> check_name, status |-> status]>> \o @]

\* the jq filter of add_check_result: .compliance_checks += [{...}]
AppendEntry(rep, check_name, status) ==
    [rep EXCEPT !.compliance_checks =
        Append(@, [name |-> check_name, status |-> status])]

\* add_check_result: jq ... > tmp && mv tmp file.  The function returns the
\* status of the && list: 0 only when both commands succeed, and only then is
\* the file replaced.
add_check_result(rep, check_name, status, w) ==
    [report |-> IF w = "ok" THEN AppendEntry(rep, check_name, status) ELSE rep,
     rc |-> IF w = "ok" THEN 0 ELSE 1]

(***************************************************************************)
(* validate-compliance.sh: the checks                                      *)
(***************************************************************************)
\* A probe is a kubectl pipeline ending in wc -l or in grep -c ... || true,
\* captured by `local x=$(...)`: `lines` is what kubectl would list, and a
\* failing kubectl lists nothing, so the captured count is 0 and the
\* assignment's status is 0 whatever kubectl did.
Probes == [ok : BOOLEAN, lines : 0 .. MaxCount]

ProbeCount(p) == IF p.ok THEN p.lines ELSE 0

ProbeResult(ps) == IF \A i \in DOMAIN ps : ps[i].ok THEN "ok" ELSE "error"

\* the checks whose status is decided by one count, in the order main runs
\* them; zero/positive are the statuses recorded for a count of 0 / above 0
CountChecks ==
    << [name |-> "api_server_anonymous_auth", zero |-> "FAIL", positive |-> "PASS"],
       [name |-> "rbac_enabled",              zero |-> "FAIL", positive |-> "PASS"],
       [name |-> "privileged_pods",           zero |-> "PASS", positive |-> "WARN"],
       [name |-> "root_containers",           zero |-> "PASS", positive |-> "WARN"],
       [name |-> "network_policies",          zero |-> "FAIL", positive |-> "PASS"],
       [name |-> "default_deny_policies",     zero |-> "WARN", positive |-> "PASS"],
       [name |-> "latest_image_tags",         zero |-> "PASS", positive |-> "WARN"],
       [name |-> "image_pull_policy",         zero |-> "WARN", positive |-> "PASS"],
       [name |-> "plaintext_secrets",         zero |-> "PASS", positive |-> "FAIL"],
       [name |-> "secret_usage",              zero |-> "INFO", positive |-> "PASS"],
       [name |-> "resource_limits",           zero |-> "PASS", positive |-> "WARN"] >>

NumCountChecks == Len(CountChecks)

\* the if [ "$n" -gt 0 ] / [ "$n" -eq 0 ] test of a count check
CheckStatus(c, n) == IF n > 0 THEN c.positive ELSE c.zero

\* the probes a count check runs: secret_usage runs two (secrets_used and
\* secret_volumes) and adds their counts, every other check runs one
CheckProbes(c) ==
    IF c.name = "secret_usage" THEN {<<p1, p2>> : p1 \in Probes, p2 \in Probes}
    ELSE {<<p>> : p \in Probes}

RECURSIVE CheckCount(_)
CheckCount(ps) ==
    IF ps = <<>> THEN 0 ELSE ProbeCount(Head(ps)) + CheckCount(Tail(ps))

\* main running the checks out of order: every other check is passed over
StepAfter_EveryOther(i) ==
    IF i + 1 < NumCountChecks THEN CountChecks[i + 2].name ELSE "kyverno_policies"

\* the step main runs after count check i
StepAfter(i) ==
    IF i < NumCountChecks THEN CountChecks[i + 1].name ELSE "kyverno_policies"

CheckNames ==
    {CountChecks[i].name : i \in 1 .. NumCountChecks}
        \cup {"kyverno_policies", "policy_violations"}

\* set -e: a step whose add_check_result returns non-zero ends the script
AfterWrite(rc, next) == IF rc = 0 THEN next ELSE "aborted"

(***************************************************************************)
(* validate-compliance.sh: the steps of main                               *)
(***************************************************************************)
\* main: init_report
InitReport ==
    /\ pc = "init_report"
    /\ \E ts \in 1 .. MaxTime, created \in BOOLEAN :
        /\ report' = IF created THEN init_report(ts) ELSE report
        /\ pc' = IF created THEN CountChecks[1].name ELSE "aborted"
    /\ last' = [step |-> "init_report", probe |-> "none"]
    /\ UNCHANGED <<callVars, toolVars>>

\* one probe-and-record block of check_api_server_security ..
\* check_resource_limits
CountCheck ==
    \E i \in 1 .. NumCountChecks :
        /\ pc = CountChecks[i].name
        /\ \E ps \in CheckProbes(CountChecks[i]), w \in WriteOutcomes :
            LET c == CountChecks[i]
                r == add_check_result(report, c.name,
                                      CheckStatus(c, CheckCount(ps)), w)
            IN  /\ report' = r.report
                /\ pc' = AfterWrite(r.rc, StepAfter(i))
                /\ last' = [step |-> c.name, probe |-> ProbeResult(ps)]
                /\ UNCHANGED <<callVars, toolVars>>

\* check_kyverno_policies, first block: kubectl get namespace kyverno decides
\* between the policy count and "Kyverno not installed", which also skips the
\* policy_violations block
NamespaceProbes == {"found", "notfound", "error"}

KyvernoStatus(ns, n) ==
    IF ns = "found" THEN (IF n > 0 THEN "PASS" ELSE "WARN") ELSE "FAIL"

KyvernoProbe(ns, p) ==
    IF ns = "error" THEN "error"
    ELSE IF ns = "found" THEN ProbeResult(<<p>>) ELSE "ok"

\* the violations block running whether or not the namespace exists
AfterKyvernoPolicies_Always(ns) == "policy_violations"

\* the policy_violations block is inside the branch of an existing kyverno
\* namespace; the else branch goes straight on to generate_summary
AfterKyvernoPolicies(ns) ==
    IF ns = "found" THEN "policy_violations" ELSE "generate_summary"

CheckKyvernoPolicies ==
    \E ns \in NamespaceProbes, p \in Probes, w \in WriteOutcomes :
        LET r == add_check_result(report, "kyverno_policies",
                                  KyvernoStatus(ns, ProbeCount(p)), w)
        IN  /\ pc = "kyverno_policies"
            /\ report' = r.report
            /\ pc' = AfterWrite(r.rc, AfterKyvernoPolicies(ns))
            /\ last' = [step |-> "kyverno_policies", probe |-> KyvernoProbe(ns, p)]
            /\ UNCHANGED <<callVars, toolVars>>

\* check_kyverno_policies, second block.  awk '{sum += $1} END {print sum}'
\* prints an empty line when it read no line, and [ "" -gt 0 ] is an error
\* (status 2) that takes the else branch.
Violations(p, fails) ==
    IF ProbeCount(p) = 0 THEN [empty |-> TRUE, n |-> 0]
    ELSE [empty |-> FALSE, n |-> fails]

ViolationsStatus(v) == IF ~v.empty /\ v.n > 0 THEN "WARN" ELSE "PASS"

CheckPolicyViolations ==
    \E p \in Probes, fails \in 0 .. MaxCount, w \in WriteOutcomes :
        LET r == add_check_result(report, "policy_violations",
                                  ViolationsStatus(Violations(p, fails)), w)
        IN  /\ pc = "policy_violations"
            /\ report' = r.report
            /\ pc' = AfterWrite(r.rc, "generate_summary")
            /\ last' = [step |-> "policy_violations", probe |-> ProbeResult(<<p>>)]
            /\ UNCHANGED <<callVars, toolVars>>

(***************************************************************************)
(* validate-compliance.sh: generate_summary                                *)
(***************************************************************************)
\* a select that takes INFO results for passed ones
CountStatus_InfoAsPass(checks, s) ==
    Cardinality({i \in DOMAIN checks :
        checks[i].status = s \/ (s = "PASS" /\ checks[i].status = "INFO")})

\* jq '.compliance_checks[] | select(.status == s) | .name' | wc -l
CountStatus(checks, s) ==
    Cardinality({i \in DOMAIN checks : checks[i].status = s})

\* a guard that scores an empty report as 100 instead of failing
compliance_score_EmptyIs100(passed_checks, total_checks) ==
    IF total_checks = 0 THEN [error |-> FALSE, value |-> 100]
    ELSE [error |-> FALSE, value |-> (passed_checks * 100) \div total_checks]

\* the share of the results that did not pass, instead of those that did
compliance_score_OfNotPassed(passed_checks, total_checks) ==
    IF total_checks = 0 THEN [error |-> TRUE, value |-> 0]
    ELSE [error |-> FALSE,
          value |-> ((total_checks - passed_checks) * 100) \div total_checks]

\* $(( (passed_checks * 100) / total_checks )): bash integer division, and an
\* arithmetic error ("division by 0") for total_checks = 0
compliance_score(passed_checks, total_checks) ==
    IF total_checks = 0 THEN [error |-> TRUE, value |-> 0]
    ELSE [error |-> FALSE, value |-> (passed_checks * 100) \div total_checks]

\* the jq filter of generate_summary: .summary = {...}
Summary(checks, score) ==
    [present |-> TRUE,
     compliance_score |-> score,
     total_checks |-> Len(checks),
     passed |-> CountStatus(checks, "PASS"),
     failed |-> CountStatus(checks, "FAIL"),
     warnings |-> CountStatus(checks, "WARN")]

\* generate_summary under set -e.  The arithmetic error ends the script before
\* anything is written.  The write is `jq ... > tmp && mv tmp file` followed by
\* the echo lines: a failing jq leaves the file as it was and the function goes
\* on (rc 0), a failing mv ends the script.
generate_summary(rep, w) ==
    LET checks == rep.compliance_checks
        score == compliance_score(CountStatus(checks, "PASS"), Len(checks))
    IN  IF score.error THEN [report |-> rep, rc |-> 1]
        ELSE IF w = "ok"
             THEN [report |-> [rep EXCEPT !.summary = Summary(checks, score.value)],
                   rc |-> 0]
             ELSE [report |-> rep, rc |-> IF w = "mv" THEN 1 ELSE 0]

\* main: generate_summary, then log_success "Compliance validation completed!"
GenerateSummary ==
    \E w \in WriteOutcomes :
        LET r == generate_summary(report, w)
        IN  /\ pc = "generate_summary"
            /\ report' = r.report
            /\ pc' = IF r.rc = 0 THEN "done" ELSE "aborted"
            /\ last' = [step |-> "generate_summary", probe |-> "none"]
            /\ UNCHANGED <<callVars, toolVars>>

Idle == [fn |-> "none"]

Init ==
    /\ pc = "init_report"
    /\ report = NoFile
    /\ last = [step |-> "none", probe |-> "none"]
    /\ call = Idle
    /\ ret = Idle
    /\ ToolsIdle

Next ==
    \/ InitReport
    \/ CountCheck
    \/ CheckKyvernoPolicies
    \/ CheckPolicyViolations
    \/ GenerateSummary

Spec == Init /\ [][Next]_vars

(***************************************************************************)
(* generate_summary on arbitrary reports: a report of up to MaxChecks      *)
(* entries is scored, then one more result is added and it is scored again *)
(***************************************************************************)
RECURSIVE SeqsUpTo(_, _)
SeqsUpTo(S, n) ==
    IF n = 0 THEN {<<>>}
    ELSE LET shorter == SeqsUpTo(S, n - 1)
         IN  shorter \cup {Append(q, x) : q \in shorter, x \in S}

Entries == [name : {"check"}, status : Statuses]

InitSummary ==
    /\ pc = "generate_summary"
    /\ \E checks \in SeqsUpTo(Entries, MaxChecks) :
        report = [exists |-> TRUE, timestamp |-> 1,
                  compliance_checks |-> checks, summary |-> NoSummary]
    /\ last = [step |-> "none", probe |-> "none"]
    /\ call = Idle
    /\ ret = Idle
    /\ ToolsIdle

\* add_check_result "extra" <status>, once, on a report that has been scored
AddOneMore ==
    \E status \in Statuses, w \in WriteOutcomes :
        LET r == add_check_result(report, "extra", status, w)
        IN  /\ pc = "done"
            /\ last.step = "generate_summary"
            /\ \A i \in DOMAIN report.compliance_checks :
                    report.compliance_checks[i].name # "extra"
            /\ report' = r.report
            /\ pc' = AfterWrite(r.rc, "generate_summary")
            /\ last' = [step |-> "add_check_result", probe |-> "none"]
            /\ UNCHANGED <<callVars, toolVars>>

NextSummary ==
    \/ GenerateSummary
    \/ AddOneMore

SpecSummary == InitSummary /\ [][NextSummary]_vars

(***************************************************************************)
(* Properties of the compliance scan                                       *)
(***************************************************************************)
Checks == report.compliance_checks

LastEntry == Checks[Len(Checks)]

\* the script has ended, normally or by set -e
Exited == pc \in {"done", "aborted"}

\* C4: a failure inside a check (a failing probe command, a failing write of
\* the result) is recorded as FAIL and never ends the scan: the script is never
\* ended by a check, and a check whose probe failed has recorded FAIL.
C4_CheckFailureRecordedNotFatal ==
    /\ (pc = "aborted" => last.step \notin CheckNames)
    /\ (last.step \in CheckNames /\ last.probe = "error" /\ pc # "aborted"
            => LastEntry.status = "FAIL")

\* C5: the score in the summary is 100 * passed / total rounded to a nearest
\* integer: it differs from the exact quotient by at most one half.
C5_ScoreIsRounded ==
    (report.exists /\ report.summary.present) =>
        LET sm == report.summary
            d == sm.compliance_score * sm.total_checks - 100 * sm.passed
        IN  /\ 2 * d <= sm.total_checks
            /\ 2 * d >= 0 - sm.total_checks

RECURSIVE NumWithStatus(_, _)
NumWithStatus(checks, s) ==
    IF checks = <<>> THEN 0
    ELSE (IF Head(checks).status = s THEN 1 ELSE 0) + NumWithStatus(Tail(checks), s)

\* C6: in the final report total is the number of recorded results of any
\* status, and passed, failed and warnings are the numbers of PASS, FAIL and
\* WARN results; WARN and INFO results count toward total, never toward passed.
C6_SummaryCounts ==
    (pc = "done" /\ report.summary.present) =>
        LET sm == report.summary
        IN  /\ sm.total_checks = Len(Checks)
            /\ sm.passed = NumWithStatus(Checks, "PASS")
            /\ sm.failed = NumWithStatus(Checks, "FAIL")
            /\ sm.warnings = NumWithStatus(Checks, "WARN")
            /\ sm.passed + NumWithStatus(Checks, "WARN")
                    + NumWithStatus(Checks, "INFO") <= sm.total_checks

\* a completed scan whose report holds WARN and INFO results beside PASS ones
C6_Witness ==
    /\ pc = "done"
    /\ report.summary.present
    /\ NumWithStatus(Checks, "WARN") > 0
    /\ NumWithStatus(Checks, "INFO") > 0
    /\ NumWithStatus(Checks, "FAIL") > 0
    /\ report.summary.passed > 0

\* C7: scoring a report with zero check results is an error: the script ends
\* with a non-zero status and writes no summary.
C7_EmptyReportIsError ==
    (report.exists /\ Checks = <<>> /\ last.step = "generate_summary") =>
        /\ pc = "aborted"
        /\ ~report.summary.present

\* generate_summary has run on a report without results and the script ended
C7_Witness ==
    /\ report.exists
    /\ Checks = <<>>
    /\ last.step = "generate_summary"
    /\ pc = "aborted"

\* the summary in the file was computed before the last result was added
SummaryPredatesLast(rep) ==
    /\ rep.summary.present
    /\ rep.summary.total_checks = Len(rep.compliance_checks) - 1

SummaryCurrent(rep) ==
    /\ rep.summary.present
    /\ rep.summary.total_checks = Len(rep.compliance_checks)

\* C8: the score is monotonic: rescoring a non-empty report after one more
\* PASS was added never gives a lower score, and after one more FAIL never a
\* higher one.
C8_ScoreMonotonic ==
    [][(pc = "generate_summary" /\ SummaryPredatesLast(report)
            /\ SummaryCurrent(report'))
        => /\ LastEntry.status = "PASS"
                => report'.summary.compliance_score >= report.summary.compliance_score
           /\ LastEntry.status = "FAIL"
                => report'.summary.compliance_score <= report.summary.compliance_score
      ]_vars

\* a report rescored after one more PASS, on which the score went up
C8_Witness ==
    /\ pc = "done"
    /\ SummaryCurrent(report)
    /\ Len(Checks) > 1
    /\ LastEntry.name = "extra"
    /\ LastEntry.status = "PASS"
    /\ report.summary.compliance_score \notin {0, 100}

(***************************************************************************)
(* tests/README.md: Go values.  A string is a sequence of tokens; an       *)
(* interface{} value carries its dynamic type, against which the type      *)
(* assertions of the helpers are decided.                                  *)
(***************************************************************************)
Nil == [t |-> "nil"]

StrV(s) == [t |-> "string", s |-> s]

BoolV(b) == [t |-> "bool", b |-> b]

\* map[string]interface{}
MapV(m) == [t |-> "map", m |-> m]

\* []map[string]interface{}, as the tests build their containers
MapSliceV(ms) == [t |-> "[]map", ms |-> ms]

\* []interface{}, as a YAML or JSON decoder builds a sequence
AnySliceV(vs) == [t |-> "[]interface", vs |-> vs]

EmptyMap == [k \in {} |-> Nil]

\* m[k]: the nil interface for a key the map does not hold
Index(m, k) == IF k \in DOMAIN m THEN m[k] ELSE Nil

\* strings.Contains
Contains(s, sub) ==
    \E i \in 1 .. (Len(s) - Len(sub) + 1) : SubSeq(s, i, i + Len(sub) - 1) = sub

(***************************************************************************)
(* tests/README.md: EvaluateKyvernoRule                                    *)
(***************************************************************************)
NoError == "nil"

Panic == [panic |-> TRUE]

RuleVerdict(matches) == [panic |-> FALSE, matches |-> matches, err |-> NoError]

\* the loop over the containers of a verifyImages rule: false at the first
\* container whose image is a string containing "latest"
SomeImageLatest(containers) ==
    \E i \in DOMAIN containers :
        LET image == Index(containers[i], "image")
        IN  image.t = "string" /\ Contains(image.s, <<"latest">>)

EvaluateKyvernoRule(rule, input) ==
    IF ~rule.VerifyImages.nil
    THEN \* input["spec"].(map[string]interface{}) is the one-value form of the
         \* type assertion: it panics when spec is absent or no map
         LET spec == Index(input, "spec")
         IN  IF spec.t # "map" THEN Panic
             ELSE LET containers == Index(spec.m, "containers")
                  IN  IF containers.t = "[]map" /\ SomeImageLatest(containers.ms)
                      THEN RuleVerdict(FALSE)
                      ELSE RuleVerdict(TRUE)
    ELSE IF ~rule.Validate.nil
    THEN LET spec == Index(input, "spec")
             securityContext == IF spec.t = "map"
                                THEN Index(spec.m, "securityContext") ELSE Nil
             runAsNonRoot == IF securityContext.t = "map"
                             THEN Index(securityContext.m, "runAsNonRoot") ELSE Nil
         IN  IF runAsNonRoot.t = "bool" THEN RuleVerdict(runAsNonRoot.b)
             ELSE RuleVerdict(TRUE)
    ELSE RuleVerdict(TRUE)

(***************************************************************************)
(* tests/README.md: EvaluatePolicyPrecedence                               *)
(***************************************************************************)
PolicyResult(allowed, reason) ==
    [panic |-> FALSE, Allowed |-> allowed, Reason |-> reason]

\* fmt.Sprintf("Policy %s failed", name)
PolicyFailed(name) == <<"Policy ", name, " failed">>

AllPassed == <<"All policies passed">>

\* The two nested loops from policy pi, rule ri on.  `evaluated` lists the
\* <<policy, rule>> positions EvaluateKyvernoRule has been called for; the
\* function returns at the first rule that does not match.
RECURSIVE EvaluateFrom(_, _, _, _, _)
EvaluateFrom(policies, input, pi, ri, evaluated) ==
    IF pi > Len(policies)
    THEN [result |-> PolicyResult(TRUE, AllPassed), evaluated |-> evaluated]
    ELSE IF ri > Len(policies[pi].Spec.Rules)
    THEN EvaluateFrom(policies, input, pi + 1, 1, evaluated)
    ELSE LET policy == policies[pi]
             r == EvaluateKyvernoRule(policy.Spec.Rules[ri], input)
             seen == Append(evaluated, <<pi, ri>>)
         IN  IF r.panic THEN [result |-> Panic, evaluated |-> seen]
             ELSE IF r.err # NoError \/ ~r.matches
             THEN [result |-> PolicyResult(FALSE, PolicyFailed(policy.Metadata.Name)),
                   evaluated |-> seen]
             ELSE EvaluateFrom(policies, input, pi, ri + 1, seen)

\* the loops run over the policies from the last to the first
EvaluatePolicyPrecedence_LastFirst(policies, input) ==
    EvaluateFrom([i \in 1 .. Len(policies) |-> policies[Len(policies) + 1 - i]],
                 input, 1, 1, <<>>)

EvaluatePolicyPrecedence(policies, input) ==
    EvaluateFrom(policies, input, 1, 1, <<>>)

(***************************************************************************)
(* tests/README.md: the rules, policies and resources of the tests         *)
(***************************************************************************)
NoVerifyImages == [nil |-> TRUE, items |-> <<>>]

VerifyImages(items) == [nil |-> FALSE, items |-> items]

NoValidate == [nil |-> TRUE]

Validate(pattern) == [nil |-> FALSE, Pattern |-> pattern]

KyvernoRule(name, kinds, verifyImages, validate) ==
    [Name |-> name,
     Match |-> [Resources |-> [Kinds |-> kinds]],
     VerifyImages |-> verifyImages,
     Validate |-> validate]

\* pattern of "require-tag": spec.containers[].image = "*:*"
TagPattern ==
    [spec |-> MapV([containers |-> MapSliceV(<<[image |-> StrV(<<"*", ":", "*">>)]>>)])]

\* pattern of "require-non-root": spec.securityContext.runAsNonRoot = true and
\* spec.containers[].securityContext.runAsNonRoot = true
NonRootPattern ==
    [spec |-> MapV([securityContext |-> MapV([runAsNonRoot |-> BoolV(TRUE)]),
                    containers |-> MapSliceV(<<
                        [securityContext |-> MapV([runAsNonRoot |-> BoolV(TRUE)])]>>)])]

\* the rules of TestKyvernoRuleLogic and TestKyvernoPolicyPrecedence, in the
\* order a policy declares them
RuleCatalog ==
    << KyvernoRule("verify-signature", <<(<<"Pod">>)>>,
                   VerifyImages(<<[Image |-> <<"*">>, Key |-> <<"test-public-key">>]>>),
                   NoValidate),
       KyvernoRule("require-tag", <<(<<"Pod">>)>>, NoVerifyImages, Validate(TagPattern)),
       KyvernoRule("require-non-root", <<(<<"Pod">>)>>, NoVerifyImages,
                   Validate(NonRootPattern)) >>

\* a pattern holding a variable expression:
\* metadata.annotations.image = "{{ request.object.spec.containers[0].image }}"
VariablePattern ==
    [metadata |-> MapV([annotations |-> MapV([image |->
        StrV(<<"{{ request.object.spec.containers[0].image }}">>)])])]

VariableRule ==
    KyvernoRule("require-image-annotation", <<(<<"Pod">>)>>, NoVerifyImages,
                Validate(VariablePattern))

\* the rules of the catalog at the positions in `picked`, in catalog order
RECURSIVE RulesFrom(_, _)
RulesFrom(i, picked) ==
    IF i > Len(RuleCatalog) THEN <<>>
    ELSE (IF i \in picked THEN <<RuleCatalog[i]>> ELSE <<>>) \o RulesFrom(i + 1, picked)

RuleLists == {RulesFrom(1, picked) : picked \in SUBSET (1 .. Len(RuleCatalog))}

KyvernoPolicy(name, action, rules) ==
    [APIVersion |-> "kyverno.io/v1",
     Kind |-> "ClusterPolicy",
     Metadata |-> [Name |-> name],
     Spec |-> [ValidationFailureAction |-> action, Rules |-> rules]]

FailureActions == {"enforce", "audit"}

\* the policy lists of length n; the policy at position i is named policy-i
RECURSIVE PolicyListsOfLen(_)
PolicyListsOfLen(n) ==
    IF n = 0 THEN {<<>>}
    ELSE {Append(ps, KyvernoPolicy("policy-" \o ToString(n), action, rules)) :
            ps \in PolicyListsOfLen(n - 1), action \in FailureActions,
            rules \in RuleLists}

PolicyLists == UNION {PolicyListsOfLen(n) : n \in 0 .. MaxPolicies}

\* one policy, of either mode, whose only rule is the rule with a variable
VariablePolicyLists ==
    {<<KyvernoPolicy("policy-1", action, <<VariableRule>>)>> : action \in FailureActions}

Container(image) == [image |-> StrV(image)]

ContainerAs(image, nonRoot) ==
    [image |-> StrV(image),
     securityContext |-> MapV([runAsNonRoot |-> BoolV(nonRoot)])]

NginxLatest == <<"docker.io/library/nginx", ":", "latest">>

NginxTagged == <<"nginx", ":", "v1.20">>

NginxUntagged == <<"nginx">>

SignedApp == <<"ghcr.io/example/app", ":", "v1.0.0">>

PodSecurity(nonRoot) == MapV([runAsNonRoot |-> BoolV(nonRoot)])

\* the value under "spec" of the resources evaluated: those of the tests, and
\* the shapes a decoded manifest can have (Nil: no spec key)
ResourceSpecs ==
    { MapV([containers |-> MapSliceV(<<Container(NginxLatest)>>)]),
      MapV([containers |-> MapSliceV(<<Container(SignedApp)>>)]),
      MapV([containers |-> MapSliceV(<<Container(NginxUntagged)>>)]),
      MapV([securityContext |-> PodSecurity(TRUE),
            containers |-> MapSliceV(<<Container(NginxTagged)>>)]),
      MapV([securityContext |-> PodSecurity(FALSE),
            containers |-> MapSliceV(<<Container(SignedApp)>>)]),
      MapV([securityContext |-> PodSecurity(FALSE),
            containers |-> MapSliceV(<<Container(NginxLatest)>>)]),
      MapV([securityContext |-> PodSecurity(TRUE),
            containers |-> MapSliceV(<<ContainerAs(NginxTagged, TRUE),
                                       ContainerAs(SignedApp, FALSE)>>)]),
      MapV([securityContext |-> PodSecurity(TRUE),
            containers |-> MapSliceV(<<ContainerAs(NginxTagged, TRUE),
                                       ContainerAs(NginxUntagged, TRUE)>>)]),
      MapV([containers |-> AnySliceV(<<MapV(Container(NginxLatest))>>)]),
      MapV([securityContext |-> StrV(<<"restricted">>),
            containers |-> MapSliceV(<<[image |-> BoolV(TRUE)]>>)]),
      MapV(EmptyMap),
      StrV(<<"none">>),
      Nil }

ResourceKinds == {"Pod", "Deployment"}

Resource(kind, spec) ==
    IF spec = Nil
    THEN [apiVersion |-> StrV(<<"v1">>), kind |-> StrV(<<kind>>)]
    ELSE [apiVersion |-> StrV(<<"v1">>), kind |-> StrV(<<kind>>), spec |-> spec]

Resources == {Resource(kind, spec) : kind \in ResourceKinds, spec \in ResourceSpecs}

(***************************************************************************)
(* tests/README.md: ValidateKyvernoPolicy                                  *)
(***************************************************************************)
\* What a policy document says.  An absent scalar key is "", an absent spec
\* has present = FALSE, an absent rules key is the count -1, and a document
\* that is not YAML at all is BadYaml.
BadYaml == [syntax |-> "bad"]

NoSpecYaml == [present |-> FALSE, action |-> "", rules |-> -1]

SpecYamls ==
    {NoSpecYaml} \cup
    [present : {TRUE}, action : {"", "enforce", "audit", "warn"},
     rules : -1 .. MaxYamlRules]

PolicyYamls ==
    {BadYaml} \cup
    [syntax : {"ok"},
     apiVersion : {"", "kyverno.io/v1", "v1"},
     kind : {"", "ClusterPolicy", "Pod"},
     name : {"", "some-policy"},
     spec : SpecYamls]

\* the n rules a document declares, decoded
DecodedRules(n) ==
    [i \in 1 .. n |-> RuleCatalog[((i - 1) % Len(RuleCatalog)) + 1]]

\* yaml.Unmarshal into a KyvernoPolicy: a key the document lacks leaves the
\* field at its zero value, and only a document that does not parse is an error
Unmarshal(yaml) ==
    IF yaml.syntax = "bad"
    THEN [err |-> "yaml: unmarshal error", policy |-> KyvernoPolicy("", "", <<>>)]
    ELSE [err |-> NoError,
          policy |->
            [APIVersion |-> yaml.apiVersion,
             Kind |-> yaml.kind,
             Metadata |-> [Name |-> yaml.name],
             Spec |-> [ValidationFailureAction |-> yaml.spec.action,
                       Rules |-> IF yaml.spec.rules >= 0
                                 THEN DecodedRules(yaml.spec.rules) ELSE <<>>]]]

ValidateKyvernoPolicy(policyYAML) ==
    LET u == Unmarshal(policyYAML)
        policy == u.policy
    IN  IF u.err # NoError
        THEN [isValid |-> FALSE, ruleCount |-> 0, err |-> u.err]
        ELSE IF policy.APIVersion # "kyverno.io/v1" \/ policy.Kind # "ClusterPolicy"
        THEN [isValid |-> FALSE, ruleCount |-> 0, err |-> "invalid policy structure"]
        ELSE [isValid |-> TRUE, ruleCount |-> Len(policy.Spec.Rules), err |-> NoError]

(***************************************************************************)
(* tests/README.md: SubstituteVariables                                    *)
(***************************************************************************)
\* variable expressions, each one token of a template
NameVar == "{{ request.object.metadata.name }}"

ImageVar == "{{ request.object.spec.containers[0].image }}"

NamespaceVar == "{{ request.object.metadata.namespace }}"

SecondImageVar == "{{ request.object.spec.containers[1].image }}"

NameInitialVar == "{{ request.object.metadata.name.initial }}"

NonexistentVar == "{{ request.object.nonexistent.field }}"

Templates ==
    { <<NameVar>>, <<ImageVar>>, <<NamespaceVar>>, <<SecondImageVar>>,
      <<NameInitialVar>>, <<NonexistentVar>>,
      <<"pod-">>, <<"name=", NameVar>>, <<ImageVar, "@", NameVar>> }

Substituted(value) == [value |-> value, err |-> NoError]

VariableNotFound == [value |-> <<>>, err |-> "variable not found"]

SubstituteVariables(template, context) ==
    IF Contains(template, <<NameVar>>)
    THEN LET request == Index(context, "request")
             object == IF request.t = "map" THEN Index(request.m, "object") ELSE Nil
             metadata == IF object.t = "map" THEN Index(object.m, "metadata") ELSE Nil
             name == IF metadata.t = "map" THEN Index(metadata.m, "name") ELSE Nil
         IN  IF name.t = "string" THEN Substituted(name.s) ELSE VariableNotFound
    ELSE IF Contains(template, <<ImageVar>>)
    THEN LET request == Index(context, "request")
             object == IF request.t = "map" THEN Index(request.m, "object") ELSE Nil
             spec == IF object.t = "map" THEN Index(object.m, "spec") ELSE Nil
             containers == IF spec.t = "map" THEN Index(spec.m, "containers") ELSE Nil
             image == IF containers.t = "[]map" /\ Len(containers.ms) > 0
                      THEN Index(containers.ms[1], "image") ELSE Nil
         IN  IF image.t = "string" THEN Substituted(image.s) ELSE VariableNotFound
    ELSE Substituted(template)

\* the value under request.object of the contexts (Nil: no object key)
RequestObjects ==
    { MapV([metadata |-> MapV([name |-> StrV(<<"test-pod">>)])]),
      MapV([spec |-> MapV([containers |-> MapSliceV(<<Container(NginxLatest)>>)])]),
      MapV([metadata |-> MapV([name |-> StrV(<<"web">>),
                               namespace |-> StrV(<<"prod">>)]),
            spec |-> MapV([containers |-> MapSliceV(<<Container(NginxTagged),
                                                      Container(SignedApp)>>)])]),
      MapV([metadata |-> MapV(EmptyMap),
            spec |-> MapV([containers |-> MapSliceV(<<>>)])]),
      MapV([metadata |-> MapV([name |-> BoolV(TRUE)]),
            spec |-> MapV([containers |-> MapSliceV(<<EmptyMap>>)])]),
      MapV([metadata |-> StrV(<<"none">>), spec |-> StrV(<<"none">>)]),
      MapV([metadata |-> MapV([name |-> StrV(<<"api">>)]),
            spec |-> MapV([containers |->
                AnySliceV(<<MapV(Container(NginxTagged))>>)])]),
      MapV(EmptyMap),
      StrV(<<"none">>),
      Nil }

Contexts ==
    {[request |-> MapV(IF object = Nil THEN EmptyMap ELSE [object |-> object])] :
        object \in RequestObjects}
    \cup {EmptyMap, [request |-> StrV(<<"none">>)]}

(***************************************************************************)
(* The helpers called as the tests call them, on arguments of the sets     *)
(* above                                                                   *)
(***************************************************************************)
Calls ==
    {[fn |-> "ValidateKyvernoPolicy", policyYAML |-> y] : y \in PolicyYamls}
    \cup {[fn |-> "EvaluateKyvernoRule", rule |-> RuleCatalog[i], input |-> input] :
            i \in 1 .. Len(RuleCatalog), input \in Resources}
    \cup {[fn |-> "EvaluateKyvernoRule", rule |-> VariableRule, input |-> input] :
            input \in Resources}
    \cup {[fn |-> "SubstituteVariables", template |-> t, context |-> c] :
            t \in Templates, c \in Contexts}
    \cup {[fn |-> "EvaluatePolicyPrecedence", policies |-> ps, input |-> input] :
            ps \in PolicyLists \cup VariablePolicyLists, input \in Resources}

InitKyverno ==
    /\ call \in Calls
    /\ ret = Idle
    /\ pc = "idle"
    /\ report = NoFile
    /\ last = [step |-> "none", probe |-> "none"]
    /\ ToolsIdle

CallValidateKyvernoPolicy ==
    /\ call.fn = "ValidateKyvernoPolicy"
    /\ ret = Idle
    /\ ret' = [fn |-> call.fn, out |-> ValidateKyvernoPolicy(call.policyYAML)]
    /\ UNCHANGED <<call, scanVars, toolVars>>

CallEvaluateKyvernoRule ==
    /\ call.fn = "EvaluateKyvernoRule"
    /\ ret = Idle
    /\ ret' = [fn |-> call.fn, out |-> EvaluateKyvernoRule(call.rule, call.input)]
    /\ UNCHANGED <<call, scanVars, toolVars>>

CallSubstituteVariables ==
    /\ call.fn = "SubstituteVariables"
    /\ ret = Idle
    /\ ret' = [fn |-> call.fn,
               out |-> SubstituteVariables(call.template, call.context)]
    /\ UNCHANGED <<call, scanVars, toolVars>>

CallEvaluatePolicyPrecedence ==
    /\ call.fn = "EvaluatePolicyPrecedence"
    /\ ret = Idle
    /\ LET r == EvaluatePolicyPrecedence(call.policies, call.input)
       IN  ret' = [fn |-> call.fn, out |-> r.result, evaluated |-> r.evaluated]
    /\ UNCHANGED <<call, scanVars, toolVars>>

NextKyverno ==
    \/ CallValidateKyvernoPolicy
    \/ CallEvaluateKyvernoRule
    \/ CallSubstituteVariables
    \/ CallEvaluatePolicyPrecedence

SpecKyverno == InitKyverno /\ [][NextKyverno]_vars

(***************************************************************************)
(* Properties of the policy helpers                                        *)
(***************************************************************************)
\* EvaluatePolicyPrecedence has returned a PolicyResult
Evaluated == ret.fn = "EvaluatePolicyPrecedence" /\ ~ret.out.panic

\* the rule evaluates to deny for the resource
Denies(rule, input) ==
    LET r == EvaluateKyvernoRule(rule, input)
    IN  ~r.panic /\ (r.err # NoError \/ ~r.matches)

\* the positions of the rules of policy that deny the resource
DenyingRules(policy, input) ==
    {ri \in 1 .. Len(policy.Spec.Rules) : Denies(policy.Spec.Rules[ri], input)}

WasEvaluated(pi, ri) == \E k \in DOMAIN ret.evaluated : ret.evaluated[k] = <<pi, ri>>

\* C1: evaluation does not stop at the first denial inside a policy: of a
\* policy with two or more violating rules, every violating rule is evaluated.
C1_EveryViolatingRuleEvaluated ==
    Evaluated =>
        \A pi \in 1 .. Len(call.policies) :
            LET denying == DenyingRules(call.policies[pi], call.input)
            IN  (Cardinality(denying) >= 2 /\ WasEvaluated(pi, 1))
                    => \A ri \in denying : WasEvaluated(pi, ri)

\* C2: an audit-mode policy never makes the result Allowed = false: a denial
\* never names a policy whose validationFailureAction is audit.
C2_AuditNeverBlocks ==
    (Evaluated /\ ~ret.out.Allowed) =>
        \A pi \in 1 .. Len(call.policies) :
            call.policies[pi].Spec.ValidationFailureAction = "audit"
                => ret.out.Reason # PolicyFailed(call.policies[pi].Metadata.Name)

\* C3: Allowed = true if and only if no enforce-mode policy of the list has a
\* rule that denies the resource.
C3_AllowedIffNoEnforceDenial ==
    Evaluated =>
        (ret.out.Allowed <=>
            \A pi \in 1 .. Len(call.policies) :
                call.policies[pi].Spec.ValidationFailureAction = "enforce"
                    => DenyingRules(call.policies[pi], call.input) = {})

\* a document is malformed when it does not parse, lacks name, spec or rules,
\* declares no rule, or names an enforcement mode other than enforce and audit
Malformed(y) ==
    \/ y.syntax = "bad"
    \/ y.name = ""
    \/ ~y.spec.present
    \/ y.spec.rules <= 0
    \/ y.spec.action \notin {"", "enforce", "audit"}

\* C9: ValidateKyvernoPolicy returns isValid = false with an error for a
\* malformed document, and isValid = true with the number of declared rules
\* only for a well-formed one.
C9_MalformedPolicyRejected ==
    ret.fn = "ValidateKyvernoPolicy" =>
        /\ Malformed(call.policyYAML) => (~ret.out.isValid /\ ret.out.err # NoError)
        /\ ret.out.isValid =>
                /\ ret.out.err = NoError
                /\ ret.out.ruleCount = call.policyYAML.spec.rules

Key(k) == [key |-> k, idx |-> -1]

At(i) == [key |-> "", idx |-> i]

RequestObject == <<Key("request"), Key("object")>>

\* the path a variable expression names
VarPath(var) ==
    CASE var = NameVar -> RequestObject \o <<Key("metadata"), Key("name")>>
      [] var = ImageVar ->
            RequestObject \o <<Key("spec"), Key("containers"), At(0), Key("image")>>
      [] var = NamespaceVar -> RequestObject \o <<Key("metadata"), Key("namespace")>>
      [] var = SecondImageVar ->
            RequestObject \o <<Key("spec"), Key("containers"), At(1), Key("image")>>
      [] var = NameInitialVar ->
            RequestObject \o <<Key("metadata"), Key("name"), Key("initial")>>
      [] var = NonexistentVar -> RequestObject \o <<Key("nonexistent"), Key("field")>>

Variables ==
    {NameVar, ImageVar, NamespaceVar, SecondImageVar, NameInitialVar, NonexistentVar}

Unresolved == [ok |-> FALSE, value |-> Nil]

\* the value at a path of a tree of maps and sequences: it fails on a key a
\* map lacks, on an index past the end, and on a step into a scalar
RECURSIVE Resolve(_, _)
Resolve(v, path) ==
    IF path = <<>> THEN [ok |-> TRUE, value |-> v]
    ELSE LET seg == Head(path)
         IN  IF seg.idx < 0
             THEN IF v.t = "map" /\ seg.key \in DOMAIN v.m
                  THEN Resolve(v.m[seg.key], Tail(path)) ELSE Unresolved
             ELSE IF v.t = "[]map" /\ seg.idx < Len(v.ms)
             THEN Resolve(MapV(v.ms[seg.idx + 1]), Tail(path))
             ELSE IF v.t = "[]interface" /\ seg.idx < Len(v.vs)
             THEN Resolve(v.vs[seg.idx + 1], Tail(path))
             ELSE Unresolved

\* C10: for a template that is one variable expression, SubstituteVariables
\* returns exactly the value at the path when the whole path exists, and an
\* error with no value when it does not.
C10_SubstituteResolvesOrFails ==
    (ret.fn = "SubstituteVariables" /\ Len(call.template) = 1
        /\ call.template[1] \in Variables) =>
        LET r == Resolve(MapV(call.context), VarPath(call.template[1]))
        IN  /\ (r.ok /\ r.value.t = "string") => ret.out = Substituted(r.value.s)
            /\ ~r.ok => (ret.out.err # NoError /\ ret.out.value = <<>>)

(***************************************************************************)
(* Properties of rule evaluation                                           *)
(***************************************************************************)
RuleEvaluated == ret.fn = "EvaluateKyvernoRule"

Range(s) == {s[i] : i \in DOMAIN s}

\* the resource is of the kind named
IsKind(input, kind) ==
    LET k == Index(input, "kind") IN k.t = "string" /\ k.s = <<kind>>

\* the resource lists its containers as the tests do, each with a string image
HasContainers(input) ==
    LET spec == Index(input, "spec")
    IN  /\ spec.t = "map"
        /\ Index(spec.m, "containers").t = "[]map"
        /\ \A c \in Range(Index(spec.m, "containers").ms) :
                Index(c, "image").t = "string"

ContainersOf(input) == Index(input, "spec").m["containers"].ms

\* the image matches the pattern "*:*": it carries a tag
HasTag(image) == Contains(image, <<":">>)

\* a list of one enforce-mode policy whose only rule is the one named
OnlyRule(policies, name) ==
    /\ Len(policies) = 1
    /\ policies[1].Spec.ValidationFailureAction = "enforce"
    /\ Len(policies[1].Spec.Rules) = 1
    /\ policies[1].Spec.Rules[1].Name = name

\* C11: an enforce-mode policy whose rule validates spec.containers[].image =
\* "*:*" allows a Pod whose container images all carry a tag and denies a Pod
\* that has a container image without one.
C11_TagPatternDecides ==
    (ret.fn = "EvaluatePolicyPrecedence" /\ OnlyRule(call.policies, "require-tag")
        /\ IsKind(call.input, "Pod") /\ HasContainers(call.input)) =>
        /\ ~ret.out.panic
        /\ ret.out.Allowed <=>
                \A c \in Range(ContainersOf(call.input)) : HasTag(c.image.s)

\* the kind of the resource is one of the rule's match.resources.kinds
KindSelected(rule, input) ==
    LET k == Index(input, "kind")
    IN  k.t = "string" /\ k.s \in Range(rule.Match.Resources.Kinds)

\* C12: a rule is applied only to resources whose kind is in its
\* match.resources.kinds: for a resource of any other kind the rule is not
\* applicable and never denies, whatever the resource holds.
C12_OtherKindsNeverDenied ==
    (RuleEvaluated /\ ~ret.out.panic /\ ~KindSelected(call.rule, call.input)) =>
        /\ ret.out.matches
        /\ ret.out.err = NoError

\* the resource has a spec that lists no containers
NoContainers(input) ==
    LET spec == Index(input, "spec")
    IN  spec.t = "map" /\ "containers" \notin DOMAIN spec.m

\* the container images of the resource
ImagesOf(input) ==
    IF HasContainers(input) THEN {c.image.s : c \in Range(ContainersOf(input))}
    ELSE {}

ImageRefs == {NginxLatest, NginxTagged, NginxUntagged, SignedApp}

\* the verification capabilities a caller can supply: verify(imageRef, key)
\* for the one key of the rule
Capabilities == [ImageRefs -> BOOLEAN]

\* the image matches the glob of a verifyImages entry
GlobMatches(glob, image) == glob = <<"*">> \/ glob = image

\* C13: for a verifyImages rule and whatever verification capability the
\* caller supplies, the verdict is deny exactly when some container image that
\* matches the rule's glob fails the capability; a resource with no matching
\* image is allowed.
C13_VerdictFollowsCapability ==
    (RuleEvaluated /\ ~call.rule.VerifyImages.nil /\ IsKind(call.input, "Pod")
        /\ (HasContainers(call.input) \/ NoContainers(call.input))) =>
        /\ ~ret.out.panic
        /\ \A verify \in Capabilities :
            ~ret.out.matches <=>
                \E image \in ImagesOf(call.input),
                   i \in DOMAIN call.rule.VerifyImages.items :
                    /\ GlobMatches(call.rule.VerifyImages.items[i].Image, image)
                    /\ ~verify[image]

\* C14: rule evaluation is total: whatever the input document (no spec key, a
\* spec that is no mapping, containers of an unexpected shape),
\* EvaluateKyvernoRule and EvaluatePolicyPrecedence return a value and never
\* raise a runtime fault.
C14_EvaluationIsTotal ==
    ret.fn \in {"EvaluateKyvernoRule", "EvaluatePolicyPrecedence"} => ~ret.out.panic

\* the container satisfies the element pattern securityContext.runAsNonRoot = true
RunsAsNonRoot(container) ==
    LET securityContext == Index(container, "securityContext")
    IN  /\ securityContext.t = "map"
        /\ Index(securityContext.m, "runAsNonRoot") = BoolV(TRUE)

\* the container says whether it runs as non-root
DeclaresNonRoot(container) ==
    LET securityContext == Index(container, "securityContext")
    IN  /\ securityContext.t = "map"
        /\ Index(securityContext.m, "runAsNonRoot").t = "bool"

\* C15: the single-element containers pattern of require-non-root is applied to
\* every container: the rule allows only if every container of the Pod runs as
\* non-root, and denies if any one container does not.
C15_ElementPatternOnEveryContainer ==
    (RuleEvaluated /\ call.rule.Name = "require-non-root"
        /\ IsKind(call.input, "Pod") /\ HasContainers(call.input)
        /\ \A c \in Range(ContainersOf(call.input)) : DeclaresNonRoot(c)) =>
        /\ ~ret.out.panic
        /\ ret.out.matches =>
                \A c \in Range(ContainersOf(call.input)) : RunsAsNonRoot(c)

(***************************************************************************)
(* Order of the results in the report                                      *)
(***************************************************************************)
DeclarationOrder ==
    << "api_server_anonymous_auth", "rbac_enabled", "privileged_pods",
       "root_containers", "network_policies", "default_deny_policies",
       "latest_image_tags", "image_pull_policy", "plaintext_secrets",
       "secret_usage", "resource_limits", "kyverno_policies",
       "policy_violations" >>

\* C16: whatever status each check records, the results in the report are in
\* the check-declaration order, and a summary is present only once the last
\* check the scan runs (kyverno_policies, or policy_violations after it) has
\* recorded its result.
C16_ResultsInDeclarationOrder ==
    report.exists =>
        /\ Len(Checks) <= Len(DeclarationOrder)
        /\ \A i \in DOMAIN Checks : Checks[i].name = DeclarationOrder[i]
        /\ report.summary.present =>
                /\ last.step = "generate_summary"
                /\ Len(Checks) >= Len(DeclarationOrder) - 1
                /\ report.summary.total_checks = Len(Checks)

\* a completed scan that recorded all thirteen results, not all of them PASS
C16_Witness ==
    /\ pc = "done"
    /\ report.summary.present
    /\ Len(Checks) = Len(DeclarationOrder)
    /\ NumWithStatus(Checks, "FAIL") > 0
    /\ NumWithStatus(Checks, "WARN") > 0
    /\ NumWithStatus(Checks, "PASS") > 0

(***************************************************************************)
(* Properties of the result of EvaluatePolicyPrecedence                    *)
(***************************************************************************)
ValidationPassed == <<"Policy validation passed">>

\* C17: when every rule of every supplied policy passes, the result is
\* Allowed = true, with Reason "Policy validation passed" for exactly one
\* policy and "All policies passed" for several.
C17_ReasonOfAllowed ==
    (Evaluated /\ Len(call.policies) >= 1
        /\ \A pi \in DOMAIN call.policies :
                DenyingRules(call.policies[pi], call.input) = {}) =>
        /\ ret.out.Allowed
        /\ ret.out.Reason = IF Len(call.policies) = 1 THEN ValidationPassed
                            ELSE <<"All policies passed">>

\* the variable expressions inside a pattern value
RECURSIVE VariablesIn(_)
VariablesIn(v) ==
    CASE v.t = "string" -> Range(v.s) \cap Variables
      [] v.t = "map" -> UNION {VariablesIn(v.m[k]) : k \in DOMAIN v.m}
      [] v.t = "[]map" -> UNION {VariablesIn(MapV(v.ms[i])) : i \in DOMAIN v.ms}
      [] OTHER -> {}

\* the evaluation context of a resource: the resource under request.object
ContextOf(input) == MapV([request |-> MapV([object |-> MapV(input)])])

\* some variable expression of the rule's pattern does not resolve against
\* the resource
HasUnresolvedVariable(rule, input) ==
    /\ ~rule.Validate.nil
    /\ \E var \in VariablesIn(MapV(rule.Validate.Pattern)) :
            ~Resolve(ContextOf(input), VarPath(var)).ok

\* C18: a rule whose pattern holds a variable expression that does not resolve
\* against the resource denies under an enforce-mode policy and is not
\* applicable, hence not blocking, under an audit-mode policy.
C18_UnresolvedVariableByMode ==
    (ret.fn = "EvaluatePolicyPrecedence" /\ Len(call.policies) = 1
        /\ Len(call.policies[1].Spec.Rules) = 1
        /\ IsKind(call.input, "Pod")
        /\ HasUnresolvedVariable(call.policies[1].Spec.Rules[1], call.input)) =>
        /\ ~ret.out.panic
        /\ ret.out.Allowed <=>
                (call.policies[1].Spec.ValidationFailureAction = "audit")

\* the positions of the policies that hold a rule denying the resource
FailingPolicies ==
    {pi \in DOMAIN call.policies : DenyingRules(call.policies[pi], call.input) # {}}

\* position <<p1, r1>> comes before <<p2, r2>> in list and declaration order
Before(a, b) == a[1] < b[1] \/ (a[1] = b[1] /\ a[2] < b[2])

\* C20: policies are evaluated in list order and the rules of a policy in
\* declaration order, so the reason of a denial, "Policy <name> failed", names
\* the first policy of the list that holds a failing rule, and evaluation
\* ended at the first failing rule of that policy.
C20_FirstFailingPolicyNamed ==
    (Evaluated /\ ~ret.out.Allowed) =>
        /\ FailingPolicies # {}
        /\ \A first \in FailingPolicies :
            (\A pi \in FailingPolicies : first <= pi) =>
                /\ ret.out.Reason =
                        <<"Policy ", call.policies[first].Metadata.Name, " failed">>
                /\ ret.evaluated[Len(ret.evaluated)][1] = first
                /\ ret.evaluated[Len(ret.evaluated)][2]
                        \in DenyingRules(call.policies[first], call.input)
        /\ \A k \in 1 .. Len(ret.evaluated) - 1 :
                Before(ret.evaluated[k], ret.evaluated[k + 1])

\* a denial of a resource that two policies of the list fail, reached after a
\* rule of the first policy passed
C20_Witness ==
    /\ Evaluated
    /\ ~ret.out.Allowed
    /\ Cardinality(FailingPolicies) >= 2
    /\ Len(ret.evaluated) >= 2
    /\ ret.out.Reason = <<"Policy ", "policy-1", " failed">>

(***************************************************************************)
(* scripts/go/main.go: the aegis command line                              *)
(***************************************************************************)
\* the environment variables loadConfig reads ("" is unset) and the
\* subcommand given on the command line
CliEnvironments ==
    [command : {"provision", "destroy"},
     AEGIS_ENVIRONMENT : {"", "production", "development"},
     AWS_REGION : {"", "eu-west-1"},
     CLUSTER_NAME : {"", "prod.cluster.aegis.local"},
     KOPS_STATE_BUCKET : {"", "aegis-state"}]

getEnvOrDefault(value, defaultValue) == IF value # "" THEN value ELSE defaultValue

loadConfig(e) ==
    [Environment |-> getEnvOrDefault(e.AEGIS_ENVIRONMENT, "staging"),
     Region |-> getEnvOrDefault(e.AWS_REGION, "us-east-1"),
     ClusterName |-> getEnvOrDefault(e.CLUSTER_NAME, "staging.cluster.aegis.local"),
     StateBucket |-> getEnvOrDefault(e.KOPS_STATE_BUCKET, "")]

\* exec.Command(name, args...) with cmd.Dir = dir ("" when it is not set)
Command(name, args, dir) == [step |-> "exec", name |-> name, args |-> args, dir |-> dir]

\* the statements of provisionInfrastructure, in order
provisionInfrastructure(config) ==
    << Command("terraform", <<"init">>, "../../terraform"),
       Command("terraform",
               <<"apply", "-auto-approve",
                 "-var=environment=" \o config.Environment,
                 "-var=region=" \o config.Region,
                 "-var=state_bucket=" \o config.StateBucket>>,
               "../../terraform") >>

\* the call of generateClusterConfig
ClusterConfigStep(config) ==
    [step |-> "generateClusterConfig", name |-> "generateClusterConfig",
     args |-> <<config.ClusterName>>, dir |-> ""]

\* the statements of provisionCluster, in order
provisionCluster(config) ==
    << ClusterConfigStep(config),
       Command("kops", <<"create", "-f", "cluster.yaml">>, "../../kops"),
       Command("kops", <<"create", "secret", "--name", config.ClusterName,
                         "sshpublickey", "admin", "-i", "~/.ssh/id_rsa.pub">>, ""),
       Command("kops", <<"update", "cluster", "--name", config.ClusterName, "--yes">>, ""),
       Command("kops", <<"validate", "cluster", "--name", config.ClusterName,
                         "--wait", "10m">>, "") >>

destroyCluster(config) ==
    << Command("kops", <<"delete", "cluster", "--name", config.ClusterName, "--yes">>, "") >>

destroyInfrastructure(config) ==
    << Command("terraform", <<"destroy", "-auto-approve">>, "../../terraform") >>

\* provisioning with the cluster before the infrastructure
provisionCmd_ClusterFirst(e) ==
    LET config == loadConfig(e)
    IN  provisionCluster(config) \o provisionInfrastructure(config)

\* provisionCmd.Run
provisionCmd(e) ==
    LET config == loadConfig(e)
    IN  provisionInfrastructure(config) \o provisionCluster(config)

\* destroying the infrastructure before the cluster
destroyCmd_InfrastructureFirst(e) ==
    LET config == loadConfig(e)
    IN  destroyInfrastructure(config) \o destroyCluster(config)

\* destroyCmd.Run
destroyCmd(e) ==
    LET config == loadConfig(e)
    IN  destroyCluster(config) \o destroyInfrastructure(config)

InitCli ==
    /\ env \in CliEnvironments
    /\ pc = "rootCmd.Execute"
    /\ todo = <<>>
    /\ trace = <<>>
    /\ exit = Running
    /\ tr = [fn |-> "none"]
    /\ renewed_count = 0
    /\ report = NoFile
    /\ last = [step |-> "none", probe |-> "none"]
    /\ call = Idle
    /\ ret = Idle

\* main: rootCmd.Execute() enters the Run function of the subcommand; todo
\* holds the statements of Run that have not run yet
Execute ==
    /\ pc = "rootCmd.Execute"
    /\ todo' = IF env.command = "provision" THEN provisionCmd(env) ELSE destroyCmd(env)
    /\ pc' = "Run"
    /\ UNCHANGED <<report, last, callVars, env, trace, exit, tr, renewed_count>>

\* what a statement of Run leaves behind: the step and whether it succeeded
Ran(step, ok) == [step |-> step, ok |-> ok]

\* log.Fatal / log.Fatalf: os.Exit(1)
Fatal == ExitStatus(1)

\* runCommand: cmd.Run(), and log.Fatalf when it returns an error
runCommand ==
    /\ pc = "Run"
    /\ todo # <<>>
    /\ Head(todo).step = "exec"
    /\ \E ok \in BOOLEAN :
        /\ trace' = Append(trace, Ran(Head(todo), ok))
        /\ todo' = IF ok THEN Tail(todo) ELSE todo
        /\ pc' = IF ok THEN pc ELSE "exited"
        /\ exit' = IF ok THEN exit ELSE Fatal
    /\ UNCHANGED <<report, last, callVars, env, tr, renewed_count>>

\* generateClusterConfig: os.ReadFile of the template or os.WriteFile of
\* cluster.yaml can fail, and each failure is a log.Fatal
generateClusterConfig ==
    /\ pc = "Run"
    /\ todo # <<>>
    /\ Head(todo).step = "generateClusterConfig"
    /\ \E outcome \in {"ok", "ReadFile", "WriteFile"} :
        /\ trace' = Append(trace, Ran(Head(todo), outcome = "ok"))
        /\ todo' = IF outcome = "ok" THEN Tail(todo) ELSE todo
        /\ pc' = IF outcome = "ok" THEN pc ELSE "exited"
        /\ exit' = IF outcome = "ok" THEN exit ELSE Fatal
    /\ UNCHANGED <<report, last, callVars, env, tr, renewed_count>>

\* Run returns, Execute returns nil and main ends with status 0
RunReturns ==
    /\ pc = "Run"
    /\ todo = <<>>
    /\ pc' = "exited"
    /\ exit' = ExitStatus(0)
    /\ UNCHANGED <<report, last, callVars, env, trace, tr, renewed_count, todo>>

NextCli ==
    \/ Execute
    \/ runCommand
    \/ generateClusterConfig
    \/ RunReturns

SpecCli == InitCli /\ [][NextCli]_vars

(***************************************************************************)
(* Properties of the command line                                          *)
(***************************************************************************)
\* the command line of a step that ran: name and arguments
CommandLine(ran) == <<ran.step.name>> \o ran.step.args

IsPrefix(p, s) == Len(p) <= Len(s) /\ SubSeq(s, 1, Len(p)) = p

\* every step that ran before the last one succeeded, and a step that failed
\* ended the process with a non-zero status
StoppedAtFailure ==
    /\ \A k \in 1 .. Len(trace) - 1 : trace[k].ok
    /\ \A k \in DOMAIN trace :
        ~trace[k].ok => (exit.ended /\ exit.code # 0 /\ pc = "exited")

ProvisionOrder ==
    << <<"terraform", "init">>, <<"terraform", "apply">>,
       <<"generateClusterConfig">>, <<"kops", "create", "-f">>,
       <<"kops", "create", "secret">>, <<"kops", "update", "cluster">>,
       <<"kops", "validate", "cluster">> >>

\* C21: provision runs terraform init, terraform apply, the cluster-config
\* generation, kops create -f, kops create secret, kops update cluster and
\* kops validate cluster in that order; a step starts only after the previous
\* one succeeded, and a failed step ends the process so no later step runs.
C21_ProvisionInOrder ==
    env.command = "provision" =>
        /\ Len(trace) <= Len(ProvisionOrder)
        /\ \A k \in DOMAIN trace : IsPrefix(ProvisionOrder[k], CommandLine(trace[k]))
        /\ StoppedAtFailure
        /\ (exit = ExitStatus(0) => Len(trace) = Len(ProvisionOrder))

\* a provision that got as far as kops update cluster and failed there
C21_Witness ==
    /\ env.command = "provision"
    /\ Len(trace) = 6
    /\ ~trace[6].ok
    /\ exit.ended

DestroyOrder == << <<"kops", "delete", "cluster">>, <<"terraform", "destroy">> >>

\* C22: destroy deletes the kops cluster before it destroys the Terraform
\* infrastructure, and terraform destroy is never started when the cluster
\* deletion failed.
C22_ClusterBeforeInfrastructure ==
    env.command = "destroy" =>
        /\ Len(trace) <= Len(DestroyOrder)
        /\ \A k \in DOMAIN trace : IsPrefix(DestroyOrder[k], CommandLine(trace[k]))
        /\ \A k \in DOMAIN trace :
            IsPrefix(<<"terraform", "destroy">>, CommandLine(trace[k])) =>
                /\ k > 1
                /\ IsPrefix(<<"kops", "delete", "cluster">>, CommandLine(trace[1]))
                /\ trace[1].ok

\* a destroy that ended when its cluster deletion failed
C22_Witness ==
    /\ env.command = "destroy"
    /\ exit = Fatal
    /\ Len(trace) = 1
    /\ ~trace[1].ok

(***************************************************************************)
(* tests/main_test.go: the test runner                                     *)
(***************************************************************************)
TestSuite(name, category, priority) ==
    [Name |-> name, Category |-> category, Priority |-> priority]

\* the four suites <prefix><group>-001 .. -004 of a block of the registry; a
\* name is the tokens <<prefix, rest>>
RegistryBlock(prefix, group, category) ==
    [n \in 1 .. 4 |-> TestSuite(<<prefix, group \o "-00" \o ToString(n)>>, category, 1)]

\* var testSuites
testSuites ==
    RegistryBlock("VPC-", "UNIT", "vpc") \o RegistryBlock("VPC-", "INT", "vpc")
        \o RegistryBlock("VPC-", "SEC", "vpc") \o RegistryBlock("VPC-", "COMP", "vpc")
        \o RegistryBlock("IAM-", "UNIT", "iam")
        \o RegistryBlock("Kyverno-", "UNIT", "kyverno")

\* strings.Split(s, ","): s is a sequence of tokens, "," the separator
RECURSIVE Split(_)
Split(s) ==
    IF s = <<>> THEN <<"">>
    ELSE LET rest == Split(Tail(s))
         IN  IF Head(s) = "," THEN <<"">> \o rest
             ELSE <<Head(s) \o Head(rest)>> \o Tail(rest)

\* the values of the -env and -categories flags, and whether os.Create of the
\* summary file succeeds
RunnerFlags ==
    [env : {"local", "development", "staging", "production"},
     categories : { <<"all">>, <<"vpc">>, <<"iam", ",", "kyverno">>,
                    <<"vpc", ",", "all">>, <<"all", ",", "iam">>,
                    <<"network">>, <<>>, <<"kyverno", ",">> },
     created : BOOLEAN]

NewTestRunner(flags) ==
    [Environment |-> flags.env,
     Categories |-> Split(flags.categories),
     Results |-> <<>>]

\* the category filter passing whenever "all" is anywhere in the list
ShouldRunTest_AllAnywhere(runner, suite) ==
    /\ \E i \in DOMAIN runner.Categories :
            runner.Categories[i] \in {"all", suite.Category}
    /\ CASE runner.Environment = "production" -> suite.Priority <= 2
         [] runner.Environment = "staging" -> suite.Priority <= 3
         [] OTHER -> TRUE

ShouldRunTest(runner, suite) ==
    IF /\ Len(runner.Categories) > 0
       /\ runner.Categories[1] # "all"
       /\ ~\E i \in DOMAIN runner.Categories : runner.Categories[i] = suite.Category
    THEN FALSE
    ELSE CASE runner.Environment = "production" -> suite.Priority <= 2
           [] runner.Environment = "staging" -> suite.Priority <= 3
           [] OTHER -> TRUE

\* RunTest: the simulated execution fails the suites whose name contains
\* "SEC-002".  Durations are not told apart.
RunTest(suite) ==
    LET passed == ~Contains(suite.Name, <<"SEC-002">>)
    IN  [TestSuite |-> suite,
         Passed |-> passed,
         Error |-> IF passed THEN NoError ELSE "simulated security test failure"]

\* the statistics with the failed results left uncounted
Statistics_FailedUncounted(results) ==
    [totalTests |-> Len(results),
     passedTests |-> Cardinality({i \in DOMAIN results : results[i].Passed}),
     failedTests |-> 0]

\* GenerateReport: totalTests, passedTests and failedTests
Statistics(results) ==
    [totalTests |-> Len(results),
     passedTests |-> Cardinality({i \in DOMAIN results : results[i].Passed}),
     failedTests |-> Cardinality({i \in DOMAIN results : ~results[i].Passed})]

\* GenerateReport.  When os.Create fails the function returns without a
\* report.  The lines up to "Success Rate" (a float division, NaN for no
\* result) are written, then totalDuration/time.Duration(totalTests) is an
\* integer division, which panics for totalTests = 0 and leaves the file at
\* that line.
GenerateReport(runner, created) ==
    LET st == Statistics(runner.Results)
    IN  IF ~created THEN [report |-> NoFile, panic |-> FALSE]
        ELSE [report |-> [exists |-> TRUE,
                          Environment |-> runner.Environment,
                          Total |-> st.totalTests,
                          Passed |-> st.passedTests,
                          Failed |-> st.failedTests,
                          Detailed |-> IF st.totalTests = 0 THEN <<>>
                                       ELSE [i \in DOMAIN runner.Results |->
                                                runner.Results[i].TestSuite.Name]],
              panic |-> st.totalTests = 0]

\* a goroutine that panics ends the process with status 2
Panicked == ExitStatus(2)

InitRunner ==
    /\ env \in RunnerFlags
    /\ pc = "TestMain"
    /\ tr = [fn |-> "none"]
    /\ todo = <<>>
    /\ trace = <<>>
    /\ exit = Running
    /\ renewed_count = 0
    /\ report = NoFile
    /\ last = [step |-> "none", probe |-> "none"]
    /\ call = Idle
    /\ ret = Idle

\* TestMain: flag.Parse, NewTestRunner, and the entry of RunAllTests
TestMain ==
    /\ pc = "TestMain"
    /\ tr' = NewTestRunner(env)
    /\ todo' = testSuites
    /\ pc' = "RunAllTests"
    /\ UNCHANGED <<report, last, callVars, env, trace, exit, renewed_count>>

\* RunAllTests: one turn of the loop over testSuites
RunAllTests ==
    /\ pc = "RunAllTests"
    /\ todo # <<>>
    /\ LET suite == Head(todo)
       IN  tr' = IF ShouldRunTest(tr, suite)
                 THEN [tr EXCEPT !.Results = Append(@, RunTest(suite))]
                 ELSE tr
    /\ todo' = Tail(todo)
    /\ UNCHANGED <<pc, report, last, callVars, env, trace, exit, renewed_count>>

\* RunAllTests: tr.GenerateReport() after the loop
RunAllTestsReport ==
    /\ pc = "RunAllTests"
    /\ todo = <<>>
    /\ LET r == GenerateReport(tr, env.created)
       IN  /\ report' = r.report
           /\ pc' = IF r.panic THEN "exited" ELSE "os.Exit"
           /\ exit' = IF r.panic THEN Panicked ELSE exit
    /\ UNCHANGED <<last, callVars, env, trace, tr, renewed_count, todo>>

\* TestMain: os.Exit(0)
TestMainExit ==
    /\ pc = "os.Exit"
    /\ exit' = ExitStatus(0)
    /\ pc' = "exited"
    /\ UNCHANGED <<report, last, callVars, env, trace, tr, renewed_count, todo>>

NextRunner ==
    \/ TestMain
    \/ RunAllTests
    \/ RunAllTestsReport
    \/ TestMainExit

SpecRunner == InitRunner /\ [][NextRunner]_vars

\* ShouldRunTest of a runner built from the flags, on suites of any category
\* and priority
SuiteCategories == {"vpc", "iam", "kyverno", "all", ""}

Priorities == 0 .. 5

InitSelect ==
    /\ call \in [fn : {"ShouldRunTest"}, flags : RunnerFlags,
                 suite : {TestSuite(<<"X-", "UNIT-001">>, c, p) :
                            c \in SuiteCategories, p \in Priorities}]
    /\ ret = Idle
    /\ pc = "idle"
    /\ report = NoFile
    /\ last = [step |-> "none", probe |-> "none"]
    /\ ToolsIdle

CallShouldRunTest ==
    /\ call.fn = "ShouldRunTest"
    /\ ret = Idle
    /\ ret' = [fn |-> call.fn,
               out |-> ShouldRunTest(NewTestRunner(call.flags), call.suite)]
    /\ UNCHANGED <<call, scanVars, toolVars>>

NextSelect == CallShouldRunTest

SpecSelect == InitSelect /\ [][NextSelect]_vars

(***************************************************************************)
(* Properties of the test runner                                           *)
(***************************************************************************)
\* C23: ShouldRunTest selects a suite if and only if the first configured
\* category is "all" or the suite's category is one of the configured ones,
\* and the suite's priority passes the environment filter: at most 2 in
\* production, at most 3 in staging, any priority elsewhere.
C23_SelectionRule ==
    ret.fn = "ShouldRunTest" =>
        LET configured == Split(call.flags.categories)
            categoryOk == \/ configured[1] = "all"
                          \/ call.suite.Category \in Range(configured)
            priorityOk == \/ call.flags.env = "production" /\ call.suite.Priority <= 2
                          \/ call.flags.env = "staging" /\ call.suite.Priority <= 3
                          \/ call.flags.env \notin {"production", "staging"}
        IN  ret.out <=> (categoryOk /\ priorityOk)

\* "all" configured after another category, for a suite of a third category
C23_Witness ==
    /\ ret.fn = "ShouldRunTest"
    /\ call.flags.categories = <<"vpc", ",", "all">>
    /\ call.suite.Category = "iam"
    /\ ~ret.out

\* the test process has ended
RunnerExited == pc = "exited" /\ exit.ended

SomeSuiteFailed == \E i \in DOMAIN tr.Results : ~tr.Results[i].Passed

\* C24: the exit code of the test process reflects the results: non-zero when
\* at least one executed suite failed, zero when suites were executed and
\* every one passed.
C24_ExitCodeReflectsResults ==
    RunnerExited =>
        /\ SomeSuiteFailed => exit.code # 0
        /\ (tr.Results # <<>> /\ ~SomeSuiteFailed) => exit.code = 0

\* RunAllTests has returned, or has ended the process
AfterRunAllTests == pc \in {"os.Exit", "exited"}

\* the registered suites ShouldRunTest selects, in registry order
SelectedSuites == SelectSeq(testSuites, LAMBDA suite : ShouldRunTest(tr, suite))

\* C27: after RunAllTests, Results holds exactly one TestResult for each
\* registered suite that ShouldRunTest selects, in registry order, and in the
\* generated report passed plus failed equals the total number of results.
C27_OneResultPerSelectedSuite ==
    AfterRunAllTests =>
        /\ Len(tr.Results) = Len(SelectedSuites)
        /\ \A i \in DOMAIN tr.Results : tr.Results[i].TestSuite = SelectedSuites[i]
        /\ report.exists =>
                /\ report.Total = Len(tr.Results)
                /\ report.Passed + report.Failed = report.Total

\* a finished run that executed some but not all registered suites, one of
\* which failed, and wrote its report
C27_Witness ==
    /\ pc = "exited"
    /\ report.exists
    /\ SomeSuiteFailed
    /\ Len(tr.Results) > 1
    /\ Len(tr.Results) < Len(testSuites)

\* C28: RunAllTests and GenerateReport complete without a runtime fault for
\* every environment and category selection, a selection that matches no
\* registered suite included.
C28_NoRuntimeFault ==
    RunnerExited => exit # Panicked

(***************************************************************************)
(* scripts/README.md: the certificate rotation script, --check-all         *)
(***************************************************************************)
RENEWAL_THRESHOLD_DAYS == 30

SecondsPerDay == 86400

\* $(( (expiry_epoch - current_epoch) / 86400 )): the shell's division
\* truncates toward zero
DaysUntilExpiry(seconds) ==
    IF seconds >= 0 THEN seconds \div SecondsPerDay
    ELSE 0 - ((0 - seconds) \div SecondsPerDay)

\* What the cluster holds for a listed certificate: whether kubectl finds a
\* notAfter for it, the seconds from now to that date, and whether kubectl
\* wait sees it Ready after a renewal was triggered.
Certificates ==
    {[managed |-> FALSE, seconds |-> 0, ready |-> FALSE]}
    \cup [managed : {TRUE},
          seconds : {0 - SecondsPerDay, RENEWAL_THRESHOLD_DAYS * SecondsPerDay,
                     (RENEWAL_THRESHOLD_DAYS + 1) * SecondsPerDay},
          ready : BOOLEAN]

\* the certificates kubectl lists (none when the listing fails), and whether
\* tee can append to $LOG_FILE
CertEnvironments ==
    [certificates : SeqsUpTo(Certificates, MaxCerts), logWritable : BOOLEAN]

\* check_cert_expiry: status 0 when the certificate needs renewal
check_cert_expiry(cert) ==
    IF ~cert.managed THEN 1
    ELSE IF DaysUntilExpiry(cert.seconds) <= RENEWAL_THRESHOLD_DAYS THEN 0 ELSE 1

\* renew_certificate, called as the condition of an if, where set -e is off:
\* the status of the renew command is not looked at, and the function returns
\* 1 when kubectl wait fails and the status of its last log otherwise
renew_certificate(cert) == IF cert.ready THEN 0 ELSE 1

\* ((renewed_count++)): the status of (( )) is 1 when the expression, here
\* the value before the increment, is 0
Increment(count) == [count |-> count + 1, rc |-> IF count = 0 THEN 1 ELSE 0]

Logged(line) == [line |-> line]

Examined(cert, attempted, renewed) ==
    [line |-> "examined", cert |-> cert, attempted |-> attempted, renewed |-> renewed]

Complete(count) == [line |-> "Certificate check complete", renewed |-> count]

InitCert ==
    /\ env \in CertEnvironments
    /\ pc = "check_all_certificates"
    /\ todo = <<>>
    /\ trace = <<>>
    /\ exit = Running
    /\ renewed_count = 0
    /\ tr = [fn |-> "none"]
    /\ report = NoFile
    /\ last = [step |-> "none", probe |-> "none"]
    /\ call = Idle
    /\ ret = Idle

\* check_all_certificates up to the loop: the first log ends the script under
\* set -e when tee fails; an empty listing is logged and the function returns
CheckAllCertificates ==
    /\ pc = "check_all_certificates"
    /\ IF ~env.logWritable
       THEN /\ trace' = Append(trace, Logged("Checking all certificates"))
            /\ pc' = "exited"
            /\ exit' = ExitStatus(1)
            /\ UNCHANGED todo
       ELSE IF env.certificates = <<>>
       THEN /\ trace' = trace \o <<Logged("Checking all certificates"),
                                   Logged("No certificates found")>>
            /\ pc' = "exited"
            /\ exit' = ExitStatus(0)
            /\ UNCHANGED todo
       ELSE /\ trace' = Append(trace, Logged("Checking all certificates"))
            /\ pc' = "for cert"
            /\ todo' = env.certificates
            /\ UNCHANGED exit
    /\ renewed_count' = 0
    /\ UNCHANGED <<report, last, callVars, env, tr>>

\* one turn of the loop: check_cert_expiry, renew_certificate, and the
\* increment, whose status 1 ends the script under set -e
ForCert ==
    /\ pc = "for cert"
    /\ todo # <<>>
    /\ LET cert == Head(todo)
           attempted == check_cert_expiry(cert) = 0
           renewed == attempted /\ renew_certificate(cert) = 0
           inc == Increment(renewed_count)
       IN  /\ trace' = Append(trace, Examined(cert, attempted, renewed))
           /\ renewed_count' = IF renewed THEN inc.count ELSE renewed_count
           /\ IF renewed /\ inc.rc # 0
              THEN pc' = "exited" /\ exit' = ExitStatus(1) /\ UNCHANGED todo
              ELSE todo' = Tail(todo) /\ UNCHANGED <<pc, exit>>
    /\ UNCHANGED <<report, last, callVars, env, tr>>

\* after the loop: the closing log, and main returns
CertificateCheckComplete ==
    /\ pc = "for cert"
    /\ todo = <<>>
    /\ trace' = Append(trace, Complete(renewed_count))
    /\ pc' = "exited"
    /\ exit' = ExitStatus(0)
    /\ UNCHANGED <<report, last, callVars, env, tr, renewed_count, todo>>

NextCert ==
    \/ CheckAllCertificates
    \/ ForCert
    \/ CertificateCheckComplete

SpecCert == InitCert /\ [][NextCert]_vars

(***************************************************************************)
(* Properties of the certificate check                                     *)
(***************************************************************************)
ExaminedLines == SelectSeq(trace, LAMBDA l : l.line = "examined")

\* C25: a check of a non-empty listing examines every listed certificate,
\* attempts a renewal for exactly those with at most RENEWAL_THRESHOLD_DAYS
\* days left, and ends by logging "Certificate check complete" with the
\* number of renewals that succeeded; no renewal, succeeding or failing,
\* keeps the remaining certificates from being examined.
C25_EveryCertificateExamined ==
    (exit.ended /\ env.logWritable /\ env.certificates # <<>>) =>
        /\ Len(ExaminedLines) = Len(env.certificates)
        /\ \A i \in DOMAIN ExaminedLines :
            /\ ExaminedLines[i].cert = env.certificates[i]
            /\ ExaminedLines[i].attempted <=>
                (/\ env.certificates[i].managed
                 /\ DaysUntilExpiry(env.certificates[i].seconds)
                        <= RENEWAL_THRESHOLD_DAYS)
        /\ trace[Len(trace)] =
            Complete(Cardinality({i \in DOMAIN ExaminedLines : ExaminedLines[i].renewed}))

(***************************************************************************)
(* unnamed/part_004: the comprehensive cluster validation script           *)
(***************************************************************************)
EXPECTED_NAMESPACES ==
    <<"default", "kube-system", "istio-system", "cert-manager", "argocd",
      "kyverno", "monitoring">>

\* the namespaces of which one may fail a per-namespace validation
FailingNamespaces == {"none", "default", "monitoring"}

\* What the script finds: the commands installed, whether the cluster answers,
\* the namespace (if any) that is missing, that has no PSA enforce label, that
\* has no NetworkPolicy, whether ClusterPolicies and certificates exist,
\* whether the Istio gateway and the ArgoCD server are deployed, and the TLS
\* validation script (absent, succeeding, failing).
ClusterFacts ==
    [kubectl : BOOLEAN, jq : BOOLEAN, reachable : BOOLEAN,
     missingNamespace : FailingNamespaces,
     unlabelledNamespace : FailingNamespaces,
     policies : BOOLEAN,
     openNamespace : FailingNamespaces,
     certificates : BOOLEAN, istio : BOOLEAN, argocd : BOOLEAN,
     tls : {"absent", "ok", "fail"}]

\* for ns in "${EXPECTED_NAMESPACES[@]}"; do validate ns; done: the status of
\* the first validation that returns 1, 0 when none does
ForEachNamespace(failing) ==
    IF \E i \in DOMAIN EXPECTED_NAMESPACES : EXPECTED_NAMESPACES[i] = failing
    THEN 1 ELSE 0

\* The status of the commands of stage n that set -e looks at: a validate_*
\* function returns 1 when what it looks for is absent.
StageStatus(n, e) ==
    CASE n = 1 -> IF e.kubectl /\ e.jq THEN 0 ELSE 1
      [] n = 2 -> IF e.kubectl /\ e.reachable THEN 0 ELSE 1
      [] n = 3 -> ForEachNamespace(e.missingNamespace)
      [] n = 4 -> ForEachNamespace(e.unlabelledNamespace)
      [] n = 5 -> IF e.policies THEN 0 ELSE 1
      [] n = 6 -> ForEachNamespace(e.openNamespace)
      [] n = 7 -> IF e.certificates THEN 0 ELSE 1
      [] n = 8 -> IF e.istio THEN 0 ELSE 1
      [] n = 9 -> IF e.argocd THEN 0 ELSE 1
      [] n = 10 -> IF e.tls = "fail" THEN 1 ELSE 0

\* the stages of the main validation logic, in order
Stages == [n \in 1 .. 10 |-> n]

StageRan(n, status) == [line |-> "stage", stage |-> n, status |-> status]

ValidationCompleteLine == [line |-> "=== Validation Complete ==="]

InitValidate ==
    /\ env \in ClusterFacts
    /\ pc = "validate"
    /\ todo = Stages
    /\ trace = <<>>
    /\ exit = Running
    /\ renewed_count = 0
    /\ tr = [fn |-> "none"]
    /\ report = NoFile
    /\ last = [step |-> "none", probe |-> "none"]
    /\ call = Idle
    /\ ret = Idle

\* one stage: its commands run, and a non-zero status ends the script (set -e;
\* exit 1 in stage 2)
RunStage ==
    /\ pc = "validate"
    /\ todo # <<>>
    /\ LET n == Head(todo)
           status == StageStatus(n, env)
       IN  /\ trace' = Append(trace, StageRan(n, status))
           /\ IF status = 0
              THEN todo' = Tail(todo) /\ UNCHANGED <<pc, exit>>
              ELSE pc' = "exited" /\ exit' = ExitStatus(status) /\ UNCHANGED todo
    /\ UNCHANGED <<report, last, callVars, env, tr, renewed_count>>

\* the closing lines of the script
ValidationComplete ==
    /\ pc = "validate"
    /\ todo = <<>>
    /\ trace' = Append(trace, ValidationCompleteLine)
    /\ pc' = "exited"
    /\ exit' = ExitStatus(0)
    /\ UNCHANGED <<report, last, callVars, env, tr, renewed_count, todo>>

NextValidate ==
    \/ RunStage
    \/ ValidationComplete

SpecValidate == InitValidate /\ [][NextValidate]_vars

(***************************************************************************)
(* Properties of the cluster validation script                             *)
(***************************************************************************)
\* C26: with the prerequisites installed and the cluster reachable, a failed
\* validation (missing namespace, missing PSA label, no Kyverno policies, no
\* NetworkPolicies, no certificates, Istio or ArgoCD absent) is only reported:
\* the ten stages run in order and the script reaches "Validation Complete".
C26_FailedValidationOnlyReported ==
    (exit.ended /\ env.kubectl /\ env.jq /\ env.reachable /\ env.tls # "fail") =>
        /\ Len(trace) = Len(Stages) + 1
        /\ \A n \in DOMAIN Stages : trace[n].line = "stage" /\ trace[n].stage = n
        /\ trace[Len(trace)] = ValidationCompleteLine

C30_NamesOncePerScan ==
    pc = "done" =>
        /\ \A i, j \in DOMAIN Checks : Checks[i].name = Checks[j].name => i = j
        /\ Len(Checks) >= Len(DeclarationOrder) - 1
        /\ Checks[Len(DeclarationOrder) - 1].name = "kyverno_policies"
        /\ LET installed == Checks[Len(DeclarationOrder) - 1].status # "FAIL"
               expected == IF installed THEN DeclarationOrder
                           ELSE SubSeq(DeclarationOrder, 1, Len(DeclarationOrder) - 1)
           IN  /\ [i \in DOMAIN Checks |-> Checks[i].name] = expected
               /\ report.summary.present
                    => report.summary.total_checks = Len(expected)

\* a completed and scored scan of a cluster without the kyverno namespace
C30_Witness ==
    /\ pc = "done"
    /\ report.summary.present
    /\ report.summary.total_checks = Len(DeclarationOrder) - 1
    /\ LastEntry.name = "kyverno_policies"

====
